---- MODULE Spec2Model ----
(***************************************************************************)
(* Glassnode API client (src/src/glassnode_api.py) and the MCP tool        *)
(* boundary over it (src/src/server.py).                                   *)
(*                                                                         *)
(* Conventions of the model:                                               *)
(*   - a Python string that is inspected character by character (a metric  *)
(*     path, an endpoint, a URL) is a sequence of string fragments in      *)
(*     which every "/" is a fragment of its own;                           *)
(*   - Optional[T] is a sequence of length <= 1: <<>> is None, <<v>> is v; *)
(*   - a dict is a function from its keys to its values.                   *)
(***************************************************************************)
EXTENDS Integers, Sequences, FiniteSets, TLC

VARIABLES api_key, pc, frame, now, sent, resps, result, tpc, tframe, tresult

vars == <<api_key, pc, frame, now, sent, resps, result, tpc, tframe, tresult>>

clientVars == <<api_key, pc, frame, now, sent, resps, result>>

toolVars == <<tpc, tframe, tresult>>

----------------------------------------------------------------------------
(* Bounds of the model.                                                    *)

\* Number of invocations that can be in flight on the one shared client.
MaxProcs == 2

\* The wall clock is read as Epoch, Epoch + 1, ..., Epoch + MaxTick.
MaxTick == 1

Procs == 1 .. MaxProcs

Epoch == 1700 * 1000000 + 500

ClockReadings == {Epoch + k : k \in 0 .. MaxTick}

----------------------------------------------------------------------------
(* Values.                                                                 *)

None == <<>>

Some(v) == <<v>>

EmptyDict == [k \in {} |-> k]

\* {**base, **over}: the keys of both, over's value where both have the key.
Update(base, over) ==
    [k \in DOMAIN base \cup DOMAIN over |->
        IF k \in DOMAIN over THEN over[k] ELSE base[k]]

\* d[k] = v
Put(d, k, v) == [x \in DOMAIN d \cup {k} |-> IF x = k THEN v ELSE d[x]]

BASE_URL == "https://api.glassnode.com/v1"

BULK_MAX_DAYS ==
    [i \in {"10m", "1h", "24h", "1w", "1month"} |->
        CASE i = "10m" -> 10
          [] i = "1h" -> 10
          [] i = "24h" -> 31
          [] i = "1w" -> 93
          [] i = "1month" -> 93]

\* str.lstrip("/"): every leading slash goes.
RECURSIVE lstrip(_)
lstrip(s) == IF s # <<>> /\ Head(s) = "/" THEN lstrip(Tail(s)) ELSE s

Raised(exc, msg) == [raised |-> TRUE, exc |-> exc, msg |-> msg]

Returned(v) == [raised |-> FALSE, value |-> v]

----------------------------------------------------------------------------
(* GlassnodeAPIClient._make_request.                                       *)

\* Faulty variant: params.setdefault("api_key", self.api_key), which keeps
\* a key the caller put among the extra parameters.
MakeRequestKeepsCallerKey(endpoint, params) ==
    [url    |-> <<BASE_URL, "/">> \o lstrip(endpoint),
     params |-> IF "api_key" \in DOMAIN params THEN params
                ELSE Put(params, "api_key", api_key)]

\* Up to the await: the API key is written into the parameters, the
\* endpoint loses its leading slashes and the GET goes out.
MakeRequest(endpoint, params) ==
    [url    |-> <<BASE_URL, "/">> \o lstrip(endpoint),
     params |-> Put(params, "api_key", api_key)]

\* What the remote service, or the network, answers to one GET.
ObjectBody(d) == [json |-> TRUE, kind |-> "object", val |-> d]

ArrayBody == [json |-> TRUE, kind |-> "array", val |-> <<"row">>]

TextBody == [json |-> FALSE, kind |-> "text", val |-> <<"<html>">>]

Bodies ==
    {ObjectBody([bulk_supported |-> TRUE]),
     ObjectBody([bulk_supported |-> FALSE]),
     ObjectBody(EmptyDict),
     ArrayBody,
     TextBody}

NetworkFailure == [arrived |-> FALSE, status |-> 0, body |-> TextBody]

Responses ==
    {NetworkFailure} \cup [arrived : {TRUE}, status : {200, 404}, body : Bodies]

\* A few of the answers, for the runs with several invocations in flight.
SmallResponses ==
    {NetworkFailure,
     [arrived |-> TRUE, status |-> 200, body |-> ObjectBody([bulk_supported |-> TRUE])],
     [arrived |-> TRUE, status |-> 200, body |-> ObjectBody(EmptyDict)]}

\* response.raise_for_status()
IsErrorStatus(status) == status >= 400

\* Faulty variant: no raise_for_status(), an error status goes unnoticed.
ResponseResultNoRaise(resp) ==
    IF ~resp.arrived THEN Raised("RequestError", <<"network failure">>)
    ELSE IF ~resp.body.json
         THEN Raised("ValueError", <<"Invalid JSON response: ">> \o resp.body.val)
    ELSE Returned(resp.body)

\* From the await on: client.get raises on a network failure,
\* raise_for_status on an HTTP error, response.json() on a body that is
\* not JSON; otherwise the decoded body is returned.
ResponseResult(resp) ==
    IF ~resp.arrived THEN Raised("RequestError", <<"network failure">>)
    ELSE IF IsErrorStatus(resp.status)
         THEN Raised("HTTPStatusError", <<"error status">>)
    ELSE IF ~resp.body.json
         THEN Raised("ValueError", <<"Invalid JSON response: ">> \o resp.body.val)
    ELSE Returned(resp.body)

----------------------------------------------------------------------------
(* GlassnodeAPIClient.get_metric_metadata.                                 *)

\* `if asset:` of an Optional[str].
TruthyStr(opt) == opt # None /\ opt[1] # ""

MetadataParams(path, asset) ==
    IF TruthyStr(asset)
    THEN Put([path |-> path], "a", asset[1])
    ELSE [path |-> path]

MetadataEndpoint == <<"metadata", "/", "metric">>

MetadataRequest(path, asset) ==
    MakeRequest(MetadataEndpoint, MetadataParams(path, asset))

----------------------------------------------------------------------------
(* GlassnodeAPIClient.fetch_metric.                                        *)

PutIfGiven(d, k, opt) == IF opt # None THEN Put(d, k, opt[1]) ELSE d

\* Faulty variant: **kwargs merged after the named parameters.
MetricParamsExtrasLast(f) ==
    Update(
        PutIfGiven(
            PutIfGiven(
                PutIfGiven([a |-> f.asset, f |-> f.format], "s", f.since),
                "u", f.until),
            "i", f.interval),
        f.extra)

MetricParams(f) ==
    PutIfGiven(
        PutIfGiven(
            PutIfGiven(Update([a |-> f.asset, f |-> f.format], f.extra),
                       "s", f.since),
            "u", f.until),
        "i", f.interval)

\* Faulty variant: the leading slashes are taken off the path itself.
MetricEndpointStripped(path) == <<"metrics">> \o lstrip(path)

MetricEndpoint(path) == <<"metrics">> \o path

MetricRequest(f) == MakeRequest(MetricEndpoint(f.path), MetricParams(f))

----------------------------------------------------------------------------
(* GlassnodeAPIClient.fetch_bulk_metric.                                   *)

\* `if assets:` of an Optional[List[str]].
TruthyList(opt) == opt # None /\ opt[1] # <<>>

\* Faulty variant: metadata.get("bulk_supported", True).
BulkSupportedDefaultTrue(metadata) ==
    IF "bulk_supported" \in DOMAIN metadata THEN metadata["bulk_supported"]
    ELSE TRUE

\* metadata.get("bulk_supported", False)
BulkSupported(metadata) ==
    IF "bulk_supported" \in DOMAIN metadata THEN metadata["bulk_supported"]
    ELSE FALSE

UnsupportedMessage(path) ==
    <<"Metric '">> \o path \o <<"' does not support bulk operations">>

BulkPath(path) == path \o <<"/", "bulk">>

ResolveUntil(until, clock) == IF until = None THEN clock ELSE until[1]

\* Faulty variant: self.BULK_MAX_DAYS.get(interval, 31), a silent default.
MaxDaysLookupDefault(interval) ==
    IF interval \in DOMAIN BULK_MAX_DAYS THEN Some(BULK_MAX_DAYS[interval])
    ELSE Some(31)

\* self.BULK_MAX_DAYS[interval]: None stands for the KeyError.
MaxDaysLookup(interval) ==
    IF interval \in DOMAIN BULK_MAX_DAYS THEN Some(BULK_MAX_DAYS[interval])
    ELSE None

MaxTimerange(max_days) == max_days * 24 * 60 * 60

\* Faulty variant: a given since is never clamped.
ResolveSinceNoClamp(since, until_ts, max_timerange) ==
    IF since = None THEN until_ts - max_timerange ELSE since[1]

\* Faulty variant: `if not since` in place of `if since is None`, so 0 counts as
\* omitted.
ResolveSinceFalsy(since, until_ts, max_timerange) ==
    IF since = None \/ since[1] = 0 THEN until_ts - max_timerange
    ELSE IF (until_ts - since[1]) > max_timerange
         THEN until_ts - max_timerange
    ELSE since[1]

ResolveSince(since, until_ts, max_timerange) ==
    IF since = None THEN until_ts - max_timerange
    ELSE IF (until_ts - since[1]) > max_timerange
         THEN until_ts - max_timerange
    ELSE since[1]

\* params before the time range is applied.
BulkBaseParams(f) ==
    LET params == Update([i |-> f.interval, f |-> f.format], f.extra)
    IN  IF TruthyList(f.assets) THEN Put(params, "a", f.assets[1]) ELSE params

BulkParams(f, since_ts, until_ts) ==
    Put(Put(BulkBaseParams(f), "s", since_ts), "u", until_ts)

BulkEndpoint(path) == <<"metrics">> \o BulkPath(path)

\* The part of fetch_bulk_metric that runs once the metadata request has
\* been answered by resp, with clock the value time.time() would give.
\* send is the bulk request, if one goes out; result the exception the
\* invocation ends with, if it ends here; read_clock whether time.time()
\* was called.
BulkAfterMetadata(f, clock, resp) ==
    LET md == ResponseResult(resp)
        stop(exc, msg, rd) ==
            [send |-> None, result |-> Some(Raised(exc, msg)), read_clock |-> rd]
    IN  IF md.raised
        THEN [send |-> None, result |-> Some(md), read_clock |-> FALSE]
        ELSE IF md.value.kind # "object"
        THEN stop("AttributeError", <<"object has no attribute 'get'">>, FALSE)
        ELSE IF ~BulkSupported(md.value.val)
        THEN stop("ValueError", UnsupportedMessage(f.path), FALSE)
        ELSE LET until_ts == ResolveUntil(f.until, clock)
                 max_days == MaxDaysLookup(f.interval)
             IN  IF max_days = None
                 THEN stop("KeyError", <<"'", f.interval, "'">>, f.until = None)
                 ELSE LET since_ts ==
                              ResolveSince(f.since, until_ts,
                                           MaxTimerange(max_days[1]))
                      IN  [send |-> Some(MakeRequest(
                                       BulkEndpoint(f.path),
                                       BulkParams(f, since_ts, until_ts))),
                           result |-> None,
                           read_clock |-> f.until = None]

----------------------------------------------------------------------------
(* Arguments the callers pass.                                             *)

Paths ==
    {<<"/", "market", "/", "price">>,
     <<"market", "/", "price">>,
     <<"/", "/", "market">>}

Day == 24 * 60 * 60

\* Unix timestamps: around zero, at and one past each lookback limit, and
\* the two of the documented scenarios.
Timestamps ==
    {0, 1, 10 * Day, 10 * Day + 1, 31 * Day + 1, 93 * Day + 1,
     1699000000, 1700000000}

OptTimestamps == {None} \cup {Some(t) : t \in Timestamps}

Intervals == {"10m", "1h", "24h", "1w", "1month", "5m"}

\* **kwargs of the single-metric call.
MetricExtras ==
    {EmptyDict, [i |-> "1h"], [f |-> "csv"], [a |-> "XRP"], [s |-> 5],
     [u |-> 7], [c |-> "usd"], [api_key |-> "other"]}

\* **kwargs of the bulk call.
BulkExtras ==
    {EmptyDict, [i |-> "1h"], [f |-> "csv"], [a |-> <<"XRP">>], [s |-> 5],
     [u |-> 7], [c |-> "usd"], [api_key |-> "other"]}

NoFrame ==
    [op |-> "none", path |-> <<>>, asset |-> None, assets |-> None,
     since |-> None, until |-> None, interval |-> None, format |-> "json",
     extra |-> EmptyDict]

NoToolCall == [tool |-> "none", ctx |-> FALSE, args |-> NoFrame]

BulkFrames ==
    [op : {"fetch_bulk_metric"}, path : Paths, asset : {None},
     assets : {None, Some(<<"BTC", "ETH">>)},
     since : OptTimestamps, until : OptTimestamps, interval : Intervals,
     format : {"json"}, extra : BulkExtras]

MetricFrames ==
    [op : {"fetch_metric"}, path : Paths, asset : {"BTC"}, assets : {None},
     since : {None, Some(0), Some(1699000000)},
     until : {None, Some(0), Some(1700000000)},
     interval : {None, Some("24h")},
     format : {"json", "csv"}, extra : MetricExtras]

MetadataFrames ==
    [op : {"get_metric_metadata"}, path : Paths,
     asset : {None, Some(""), Some("BTC")}, assets : {None},
     since : {None}, until : {None}, interval : {None}, format : {"json"},
     extra : {EmptyDict}]

\* A few calls of each kind, for the runs with several invocations in flight.
SmallBulkFrames ==
    {f \in BulkFrames :
        /\ f.path = <<"/", "market", "/", "price">>
        /\ <<f.since, f.interval>> \in {<<None, "1h">>, <<Some(0), "5m">>}
        /\ f.until = None
        /\ f.assets = None
        /\ f.extra = EmptyDict}

SmallMetricFrames ==
    {f \in MetricFrames :
        /\ f.path = <<"market", "/", "price">>
        /\ f.since = None
        /\ f.until = None
        /\ f.interval = None
        /\ f.format = "json"
        /\ f.extra = EmptyDict}

SmallMetadataFrames ==
    {f \in MetadataFrames : f.path = <<"/", "/", "market">> /\ f.asset = None}

----------------------------------------------------------------------------
(* The client: invocations p of its coroutines on one shared instance.     *)
(* Each action is the code a coroutine runs between two awaits.            *)

\* Faulty variant: the arguments are kept on the shared client object, so a
\* resumed coroutine reads those of whichever invocation is in flight.
LocalsShared(p) == frame[CHOOSE q \in Procs : pc[q] # "idle"]

\* The local variables of invocation p: its own coroutine frame.
Locals(p) == frame[p]

\* The GET goes out and the coroutine is suspended at `await client.get`.
Suspend(p, f, req, at) ==
    /\ frame' = [frame EXCEPT ![p] = f]
    /\ sent' = [sent EXCEPT ![p] = Append(@, req)]
    /\ pc' = [pc EXCEPT ![p] = at]

\* fetch_bulk_metric is called: the metadata request goes out first.
FetchBulkMetric(p, frames) ==
    /\ pc[p] = "idle"
    /\ \E f \in frames :
        Suspend(p, f, MetadataRequest(f.path, None), "await_meta")
    /\ UNCHANGED <<api_key, now, resps, result, toolVars>>

\* The metadata request of fetch_bulk_metric is answered: gate, range,
\* parameters, and the bulk request or the exception.
BulkMetadataReturns(p, responses) ==
    /\ pc[p] = "await_meta"
    /\ \E resp \in responses, clock \in ClockReadings :
        LET o == BulkAfterMetadata(Locals(p), clock, resp)
        IN  /\ resps' = [resps EXCEPT ![p] = Append(@, resp)]
            /\ now' = [now EXCEPT ![p] = IF o.read_clock THEN Some(clock) ELSE None]
            /\ sent' = [sent EXCEPT ![p] = @ \o o.send]
            /\ result' = [result EXCEPT ![p] = o.result]
            /\ pc' = [pc EXCEPT ![p] = IF o.send = None THEN "done" ELSE "await_request"]
    /\ UNCHANGED <<api_key, frame, toolVars>>

\* fetch_metric is called.
FetchMetric(p, frames) ==
    /\ pc[p] = "idle"
    /\ \E f \in frames : Suspend(p, f, MetricRequest(f), "await_request")
    /\ UNCHANGED <<api_key, now, resps, result, toolVars>>

\* get_metric_metadata is called.
GetMetricMetadata(p, frames) ==
    /\ pc[p] = "idle"
    /\ \E f \in frames :
        Suspend(p, f, MetadataRequest(f.path, f.asset), "await_request")
    /\ UNCHANGED <<api_key, now, resps, result, toolVars>>

\* `return await self._make_request(...)`: the last request of an
\* invocation is answered and its outcome is the invocation's.
RequestReturns(p, responses) ==
    /\ pc[p] = "await_request"
    /\ \E resp \in responses :
        /\ resps' = [resps EXCEPT ![p] = Append(@, resp)]
        /\ result' = [result EXCEPT ![p] = Some(ResponseResult(resp))]
    /\ pc' = [pc EXCEPT ![p] = "done"]
    /\ UNCHANGED <<api_key, frame, now, sent, toolVars>>

\* The caller has the outcome; the coroutine and its frame are gone.
Finish(p) ==
    /\ pc[p] = "done"
    /\ pc' = [pc EXCEPT ![p] = "idle"]
    /\ frame' = [frame EXCEPT ![p] = NoFrame]
    /\ now' = [now EXCEPT ![p] = None]
    /\ sent' = [sent EXCEPT ![p] = <<>>]
    /\ resps' = [resps EXCEPT ![p] = <<>>]
    /\ result' = [result EXCEPT ![p] = None]
    /\ UNCHANGED <<api_key, toolVars>>

\* GlassnodeAPIClient(api_key): nothing in flight.
ClientInit ==
    /\ api_key = "KEY"
    /\ pc = [p \in Procs |-> "idle"]
    /\ frame = [p \in Procs |-> NoFrame]
    /\ now = [p \in Procs |-> None]
    /\ sent = [p \in Procs |-> <<>>]
    /\ resps = [p \in Procs |-> <<>>]
    /\ result = [p \in Procs |-> None]

ToolInit ==
    /\ tpc = "idle"
    /\ tframe = NoToolCall
    /\ tresult = None

Init == ClientInit /\ ToolInit

\* One invocation at a time, with every argument combination.
Next ==
    \/ FetchBulkMetric(1, BulkFrames)
    \/ BulkMetadataReturns(1, Responses)
    \/ FetchMetric(1, MetricFrames)
    \/ GetMetricMetadata(1, MetadataFrames)
    \/ RequestReturns(1, Responses)
    \/ Finish(1)

Spec == Init /\ [][Next]_vars

\* Up to MaxProcs invocations in flight, interleaved at their awaits.
NextConc ==
    \E p \in Procs :
        \/ FetchBulkMetric(p, SmallBulkFrames)
        \/ BulkMetadataReturns(p, SmallResponses)
        \/ FetchMetric(p, SmallMetricFrames)
        \/ GetMetricMetadata(p, SmallMetadataFrames)
        \/ RequestReturns(p, SmallResponses)
        \/ Finish(p)

SpecConc == Init /\ [][NextConc]_vars

----------------------------------------------------------------------------
(* The invocation run alone: what fetch_bulk_metric, fetch_metric and      *)
(* get_metric_metadata send and return when called with the arguments f,   *)
(* the clock reading clock (if the clock is read) and the answers rs,      *)
(* with nothing else in flight.                                            *)

FirstRequest(f) ==
    CASE f.op = "fetch_bulk_metric" -> MetadataRequest(f.path, None)
      [] f.op = "fetch_metric" -> MetricRequest(f)
      [] f.op = "get_metric_metadata" -> MetadataRequest(f.path, f.asset)

\* sent: the requests issued; result: the outcome, once there is one;
\* read_clock: whether time.time() was called.
AloneRun(f, clock, rs) ==
    IF f.op = "fetch_bulk_metric" /\ rs # <<>>
    THEN LET o == BulkAfterMetadata(f, clock, rs[1])
         IN  [sent |-> <<FirstRequest(f)>> \o o.send,
              result |-> IF o.send = None THEN o.result
                         ELSE IF Len(rs) = 2 THEN Some(ResponseResult(rs[2]))
                         ELSE None,
              read_clock |-> o.read_clock]
    ELSE [sent |-> <<FirstRequest(f)>>,
          result |-> IF f.op = "fetch_bulk_metric" \/ rs = <<>> THEN None
                     ELSE Some(ResponseResult(rs[1])),
          read_clock |-> FALSE]

----------------------------------------------------------------------------
(* The tool boundary (server.py): one tool call at a time, handed to the   *)
(* client through asyncio.to_thread.                                       *)

ToolMetricCalls ==
    [tool : {"fetch_metric"}, ctx : BOOLEAN,
     args : {f \in MetricFrames :
                /\ f.format = "json" /\ f.extra = EmptyDict
                /\ f.interval = None /\ f.until = None}]

ToolBulkCalls ==
    [tool : {"fetch_bulk_metric"}, ctx : BOOLEAN,
     args : {f \in BulkFrames :
                /\ f.extra = EmptyDict /\ f.assets = None
                /\ f.since = None /\ f.until = None
                /\ f.interval \in {"24h", "5m"}}]

\* ctx is a required argument of this tool: the server always passes it.
ToolMetadataCalls ==
    [tool : {"get_metric_metadata"}, ctx : {TRUE},
     args : {f \in MetadataFrames : f.asset = None}]

\* How the client call made in the worker thread can end: with whatever
\* a request can end with, or with one of the client's own exceptions.
ClientOutcomes(f) ==
    {ResponseResult(r) : r \in Responses}
        \cup {Raised("ValueError", UnsupportedMessage(f.path)),
              Raised("KeyError", <<"'", "5m", "'">>),
              Raised("TypeError", <<"unexpected keyword argument">>)}

DictResult(d) == [py |-> "dict", val |-> d]

\* json.dumps(d, indent=2)
JsonResult(d) == [py |-> "str", val |-> d]

\* The exception leaves the tool function.
Escapes(o) == [py |-> "exception", val |-> [exc |-> o.exc]]

\* Faulty variant: `except ValueError` in place of `except Exception`.
CaughtOnlyValueError(exc) == exc = "ValueError"

\* `except Exception as e`: every failure of the client call is caught.
Caught(exc) == TRUE

\* `if ctx is None: return {"error": "Context not available"}`
MissingContext == DictResult([error |-> "Context not available"])

\* The try block of fetch_metric and of fetch_bulk_metric.
FetchToolResult(o) ==
    IF ~o.raised THEN DictResult([status |-> "success", data |-> o.value])
    ELSE IF Caught(o.exc)
         THEN DictResult([status |-> "error", message |-> o.msg])
    ELSE Escapes(o)

\* The try block of get_metric_metadata.
MetadataToolResult(o) ==
    IF ~o.raised THEN JsonResult(o.value)
    ELSE IF Caught(o.exc) THEN JsonResult([error |-> o.msg])
    ELSE Escapes(o)

\* A data tool is called: without a context it returns at once, with one
\* it awaits the client call.
ToolFetch(calls) ==
    /\ tpc = "idle"
    /\ \E c \in calls :
        /\ tframe' = c
        /\ IF ~c.ctx
           THEN tpc' = "done" /\ tresult' = Some(MissingContext)
           ELSE tpc' = "in_thread" /\ tresult' = None
    /\ UNCHANGED clientVars

ToolFetchMetric == ToolFetch(ToolMetricCalls)

ToolFetchBulkMetric == ToolFetch(ToolBulkCalls)

ToolGetMetricMetadata ==
    /\ tpc = "idle"
    /\ \E c \in ToolMetadataCalls : tframe' = c
    /\ tpc' = "in_thread"
    /\ tresult' = None
    /\ UNCHANGED clientVars

\* The awaited client call ends and the tool returns.
ToolThreadReturns ==
    /\ tpc = "in_thread"
    /\ \E o \in ClientOutcomes(tframe.args) :
        tresult' = Some(IF tframe.tool = "get_metric_metadata"
                        THEN MetadataToolResult(o)
                        ELSE FetchToolResult(o))
    /\ tpc' = "done"
    /\ UNCHANGED <<tframe, clientVars>>

\* The host has the tool's result.
ToolFinish ==
    /\ tpc = "done"
    /\ tpc' = "idle"
    /\ tframe' = NoToolCall
    /\ tresult' = None
    /\ UNCHANGED clientVars

NextServer ==
    \/ ToolFetchMetric
    \/ ToolFetchBulkMetric
    \/ ToolGetMetricMetadata
    \/ ToolThreadReturns
    \/ ToolFinish

SpecServer == Init /\ [][NextServer]_vars

----------------------------------------------------------------------------
(* Vocabulary of the properties.                                           *)

IsBulk(p) == frame[p].op = "fetch_bulk_metric"

IsMetric(p) == frame[p].op = "fetch_metric"

IsMetadata(p) == frame[p].op = "get_metric_metadata"

Recognized == {"10m", "1h", "24h", "1w", "1month"}

\* The URL of the named resource, as the remote service sees it.
ResourceUrl(resource) == <<"https://api.glassnode.com/v1", "/">> \o resource

MetadataUrl == ResourceUrl(<<"metadata", "/", "metric">>)

BulkUrl(path) == ResourceUrl(<<"metrics">> \o path \o <<"/", "bulk">>)

MetricUrl(path) == ResourceUrl(<<"metrics">> \o path)

\* A request failed: HTTP error, network failure or undecodable body.
RequestFailed(resp) == ~resp.arrived \/ resp.status >= 400 \/ ~resp.body.json

\* The body is a JSON object whose bulk_supported is false or missing.
SaysUnsupported(resp) ==
    /\ resp.body.json
    /\ resp.body.kind = "object"
    /\ \/ "bulk_supported" \notin DOMAIN resp.body.val
       \/ resp.body.val["bulk_supported"] = FALSE

\* The bulk request of invocation p has gone out.
BulkSent(p) == IsBulk(p) /\ Len(sent[p]) = 2

Seconds(days) == days * 86400

\* until as resolved for invocation p: the caller's, else the clock reading.
UntilResolved(p) ==
    IF frame[p].until = None THEN now[p][1] ELSE frame[p].until[1]

----------------------------------------------------------------------------
(* C1: in every invocation of fetch_bulk_metric, whenever the metadata     *)
(* answer is an object whose bulk_supported is false or missing, no        *)
(* request to the metrics<path>/bulk resource has been issued, and when    *)
(* that answer is a successful lookup the invocation has ended with the    *)
(* error "Metric '<path>' does not support bulk operations".               *)
C1_GateBlocksBulk ==
    \A p \in Procs :
        (IsBulk(p) /\ resps[p] # <<>> /\ SaysUnsupported(resps[p][1])) =>
            /\ \A i \in 1 .. Len(sent[p]) : sent[p][i].url # BulkUrl(frame[p].path)
            /\ Len(sent[p]) = 1
            /\ ~RequestFailed(resps[p][1]) =>
                /\ pc[p] = "done"
                /\ result[p] =
                     Some([raised |-> TRUE, exc |-> "ValueError",
                           msg |-> <<"Metric '">> \o frame[p].path
                                     \o <<"' does not support bulk operations">>])

\* A successful metadata lookup without the bulk_supported key ended the
\* invocation.
C1_Witness ==
    \E p \in Procs :
        /\ IsBulk(p)
        /\ pc[p] = "done"
        /\ resps[p] = <<[arrived |-> TRUE, status |-> 200,
                         body |-> ObjectBody(EmptyDict)]>>
        /\ result[p][1].exc = "ValueError"

----------------------------------------------------------------------------
(* C2 as stated: for every recognized interval and every since and until,  *)
(* the s and u sent satisfy 0 <= u - s <= maxDays * 86400, and u is the    *)
(* caller's until whenever one was given.                                  *)
C2_RangeWithinLimit ==
    \A p \in Procs :
        (BulkSent(p) /\ frame[p].interval \in Recognized) =>
            LET s == sent[p][2].params["s"]
                u == sent[p][2].params["u"]
            IN  /\ 0 <= u - s
                /\ u - s <= Seconds(BULK_MAX_DAYS[frame[p].interval])
                /\ frame[p].until # None => u = frame[p].until[1]

(* C2 amended: u - s <= maxDays * 86400 always and u is the caller's until *)
(* when given; 0 <= u - s holds when since is omitted or not later than    *)
(* the resolved until; a since later than the resolved until is sent       *)
(* unchanged, so the width is negative.                                    *)
C2_RangeUpperBound ==
    \A p \in Procs :
        (BulkSent(p) /\ frame[p].interval \in Recognized) =>
            LET s == sent[p][2].params["s"]
                u == sent[p][2].params["u"]
                since == frame[p].since
            IN  /\ u - s <= Seconds(BULK_MAX_DAYS[frame[p].interval])
                /\ u = UntilResolved(p)
                /\ (since = None \/ since[1] <= u) => 0 <= u - s
                /\ (since # None /\ since[1] > u) => (s = since[1] /\ u - s < 0)

\* A bulk request went out for a since later than the until.
C2_Witness ==
    \E p \in Procs :
        /\ BulkSent(p)
        /\ frame[p].interval \in Recognized
        /\ frame[p].since # None
        /\ frame[p].until # None
        /\ frame[p].since[1] > frame[p].until[1]

----------------------------------------------------------------------------
(* C3: with maxSeconds = days * 86400 from the table {10m: 10, 1h: 10,     *)
(* 24h: 31, 1w: 93, 1month: 93} and untilResolved the caller's until or    *)
(* else the clock reading, the since sent is untilResolved - maxSeconds    *)
(* when since is omitted or untilResolved - since > maxSeconds, and the    *)
(* caller's since unchanged otherwise (since = 0, since > until included). *)
C3_SinceResolution ==
    \A p \in Procs :
        BulkSent(p) =>
            LET table == [i \in Recognized |->
                            IF i \in {"10m", "1h"} THEN 10
                            ELSE IF i = "24h" THEN 31 ELSE 93]
                maxSeconds == table[frame[p].interval] * 86400
                since == frame[p].since
                u == UntilResolved(p)
            IN  /\ frame[p].until = None => now[p][1] \in ClockReadings
                /\ sent[p][2].params["s"] =
                     IF since = None \/ u - since[1] > maxSeconds
                     THEN u - maxSeconds
                     ELSE since[1]

\* Scenario 2 of the specification: an over-wide since is clamped.
C3_Witness ==
    \E p \in Procs :
        /\ BulkSent(p)
        /\ /\ frame[p].interval = "1h"
              /\ frame[p].until = Some(1700000000)
              /\ frame[p].since = Some(1699000000)
              /\ sent[p][2].params["s"] = 1699136000

----------------------------------------------------------------------------
(* C4 as stated: an invocation of fetch_bulk_metric with an interval that  *)
(* is not one of the five codes fails with a configuration error before    *)
(* any network call: neither a metadata nor a bulk request is sent.        *)
C4_FailsBeforeAnyRequest ==
    \A p \in Procs :
        (IsBulk(p) /\ frame[p].interval \notin Recognized) =>
            /\ sent[p] = <<>>
            /\ pc[p] = "done" => result[p][1].exc = "KeyError"

(* C4 amended: with an unrecognized interval the metadata request is still *)
(* issued first; no bulk request is ever issued and no default window is   *)
(* substituted; the invocation ends in an error, which is the KeyError for *)
(* the interval when the metadata lookup succeeded and reported bulk       *)
(* support, and the metadata or gate error otherwise.                      *)
C4_FailsBeforeBulkRequest ==
    \A p \in Procs :
        (IsBulk(p) /\ frame[p].interval \notin Recognized) =>
            /\ Len(sent[p]) = 1
            /\ sent[p][1].url = MetadataUrl
            /\ {"s", "u"} \cap DOMAIN sent[p][1].params = {}
            /\ pc[p] \in {"await_meta", "done"}
            /\ pc[p] = "done" =>
                /\ result[p] # None
                /\ result[p][1].raised
                /\ (~RequestFailed(resps[p][1])
                      /\ resps[p][1].body.kind = "object"
                      /\ ~SaysUnsupported(resps[p][1])) =>
                        /\ result[p][1].exc = "KeyError"
                        /\ result[p][1].msg = <<"'", frame[p].interval, "'">>

\* Scenario 5 of the specification: "5m" on a metric that supports bulk.
C4_Witness ==
    \E p \in Procs :
        /\ IsBulk(p)
        /\ frame[p].interval = "5m"
        /\ pc[p] = "done"
        /\ ~SaysUnsupported(resps[p][1])
        /\ result[p][1].exc = "KeyError"

----------------------------------------------------------------------------
(* C5: in every query built by fetch_bulk_metric or fetch_metric, each     *)
(* named parameter (i, f, a, s, u) is in the final parameter set with the  *)
(* value of the named argument, whatever the extra parameters hold under   *)
(* the same key.                                                           *)
C5_NamedParametersWin ==
    \A p \in Procs :
        /\ BulkSent(p) =>
            LET q == sent[p][2].params
            IN  /\ q["i"] = frame[p].interval
                /\ q["f"] = frame[p].format
                /\ frame[p].assets # None => q["a"] = frame[p].assets[1]
                /\ q["u"] = UntilResolved(p)
                /\ frame[p].since # None =>
                     q["s"] \in {frame[p].since[1],
                                 UntilResolved(p)
                                   - Seconds(BULK_MAX_DAYS[frame[p].interval])}
        /\ (IsMetric(p) /\ sent[p] # <<>>) =>
            LET q == sent[p][1].params
            IN  /\ q["a"] = frame[p].asset
                /\ q["f"] = frame[p].format
                /\ frame[p].since # None => q["s"] = frame[p].since[1]
                /\ frame[p].until # None => q["u"] = frame[p].until[1]
                /\ frame[p].interval # None => q["i"] = frame[p].interval[1]

\* The part of C5 the code does keep: s and u, and the bulk call's a and
\* the single call's i, are written after the extra parameters.
C5_LateParametersWin ==
    \A p \in Procs :
        /\ BulkSent(p) =>
            LET q == sent[p][2].params
            IN  /\ frame[p].assets # None => q["a"] = frame[p].assets[1]
                /\ q["u"] = UntilResolved(p)
        /\ (IsMetric(p) /\ sent[p] # <<>>) =>
            LET q == sent[p][1].params
            IN  /\ frame[p].since # None => q["s"] = frame[p].since[1]
                /\ frame[p].until # None => q["u"] = frame[p].until[1]
                /\ frame[p].interval # None => q["i"] = frame[p].interval[1]

----------------------------------------------------------------------------
(* C7: in every invocation of fetch_bulk_metric the requests sent are a    *)
(* prefix of <metadata request, bulk request>: the metadata request once   *)
(* and first, the bulk request at most once, and once a request has failed *)
(* the invocation has ended in error with no further request sent.         *)
C7_RequestSequence ==
    \A p \in Procs :
        IsBulk(p) =>
            /\ Len(sent[p]) \in {1, 2}
            /\ sent[p][1].url = MetadataUrl
            /\ Len(sent[p]) = 2 => sent[p][2].url = BulkUrl(frame[p].path)
            /\ Len(resps[p]) <= Len(sent[p])
            /\ pc[p] # "done" => Len(resps[p]) = Len(sent[p]) - 1
            /\ \A i \in 1 .. Len(resps[p]) :
                RequestFailed(resps[p][i]) =>
                    /\ pc[p] = "done"
                    /\ Len(sent[p]) = i
                    /\ result[p] # None
                    /\ result[p][1].raised

\* An error status on the metadata request ended the invocation although
\* the body that came with it reported bulk support.
C7_Witness ==
    \E p \in Procs :
        /\ IsBulk(p)
        /\ pc[p] = "done"
        /\ resps[p] = <<[arrived |-> TRUE, status |-> 404,
                         body |-> ObjectBody([bulk_supported |-> TRUE])]>>
        /\ Len(sent[p]) = 1

----------------------------------------------------------------------------
(* C8 as stated: in every invocation of fetch_metric, each of s, u and i   *)
(* is in the parameters sent if and only if the caller gave the named      *)
(* argument since, until or interval, and then with the caller's value.    *)
C8_PresentIffNamedGiven ==
    \A p \in Procs :
        (IsMetric(p) /\ sent[p] # <<>>) =>
            LET q == sent[p][1].params
            IN  /\ ("s" \in DOMAIN q) <=> (frame[p].since # None)
                /\ ("u" \in DOMAIN q) <=> (frame[p].until # None)
                /\ ("i" \in DOMAIN q) <=> (frame[p].interval # None)
                /\ frame[p].since # None => q["s"] = frame[p].since[1]
                /\ frame[p].until # None => q["u"] = frame[p].until[1]
                /\ frame[p].interval # None => q["i"] = frame[p].interval[1]

(* C8 amended: each of s, u and i is in the parameters sent if and only if *)
(* the caller gave it, as the named argument or as a same-named key of the *)
(* extra parameters; a named argument is sent with exactly the caller's    *)
(* value, and otherwise the extra parameter's value is; nothing is         *)
(* clamped or defaulted.                                                   *)
C8_PassThrough ==
    \A p \in Procs :
        (IsMetric(p) /\ sent[p] # <<>>) =>
            LET q == sent[p][1].params
                x == frame[p].extra
                ok(k, arg) ==
                    /\ (k \in DOMAIN q) <=> (arg # None \/ k \in DOMAIN x)
                    /\ arg # None => q[k] = arg[1]
                    /\ (arg = None /\ k \in DOMAIN x) => q[k] = x[k]
            IN  /\ ok("s", frame[p].since)
                /\ ok("u", frame[p].until)
                /\ ok("i", frame[p].interval)

\* A range far wider than any bulk lookback limit went out as given.
C8_Witness ==
    \E p \in Procs :
        /\ IsMetric(p)
        /\ frame[p].since = Some(0)
        /\ frame[p].until = Some(1700000000)
        /\ frame[p].interval = None
        /\ sent[p] # <<>>
        /\ sent[p][1].params["s"] = 0
        /\ sent[p][1].params["u"] = 1700000000
        /\ "i" \notin DOMAIN sent[p][1].params

----------------------------------------------------------------------------
\* The path with one leading slash, if it has one, taken off.
StripOne(path) == IF path # <<>> /\ Head(path) = "/" THEN Tail(path) ELSE path

(* C9 as stated: the path that reaches the remote service, inside the      *)
(* metrics<path> resource name or as the path parameter of the metadata    *)
(* request, is the caller's path with a single leading slash stripped.     *)
C9_PathStripped ==
    \A p \in Procs :
        /\ (IsMetric(p) /\ sent[p] # <<>>) =>
            sent[p][1].url = MetricUrl(StripOne(frame[p].path))
        /\ (IsMetadata(p) /\ sent[p] # <<>>) =>
            sent[p][1].params["path"] = StripOne(frame[p].path)
        /\ IsBulk(p) =>
            /\ sent[p][1].params["path"] = StripOne(frame[p].path)
            /\ Len(sent[p]) = 2 =>
                sent[p][2].url = BulkUrl(StripOne(frame[p].path))

(* C9 amended: the path reaches the remote service verbatim, leading       *)
(* slashes included: the resource name is "metrics" followed by the path   *)
(* as given (and "/bulk" for the bulk call), and the path parameter of the *)
(* metadata request is the path as given.                                  *)
C9_PathVerbatim ==
    \A p \in Procs :
        /\ (IsMetric(p) /\ sent[p] # <<>>) =>
            sent[p][1].url = MetricUrl(frame[p].path)
        /\ (IsMetadata(p) /\ sent[p] # <<>>) =>
            sent[p][1].params["path"] = frame[p].path
        /\ IsBulk(p) =>
            /\ sent[p][1].params["path"] = frame[p].path
            /\ Len(sent[p]) = 2 => sent[p][2].url = BulkUrl(frame[p].path)

\* A path with a leading slash went out in a single-metric request.
C9_Witness ==
    \E p \in Procs :
        /\ IsMetric(p)
        /\ sent[p] # <<>>
        /\ frame[p].path = <<"/", "market", "/", "price">>
        /\ sent[p][1].url =
             <<"https://api.glassnode.com/v1", "/", "metrics",
               "/", "market", "/", "price">>

----------------------------------------------------------------------------
\* The tool's result is one of the two tagged dictionaries.
Tagged(r) ==
    /\ r.py = "dict"
    /\ \/ DOMAIN r.val = {"status", "data"} /\ r.val["status"] = "success"
       \/ DOMAIN r.val = {"status", "message"} /\ r.val["status"] = "error"

----------------------------------------------------------------------------
\* Everything invocation p holds.
Invocation(p) == <<pc[p], frame[p], now[p], sent[p], resps[p], result[p]>>

\* The clock value invocation p read, if it read the clock.
ClockOf(p) == IF now[p] = None THEN 0 ELSE now[p][1]

\* What invocation p has sent and returned is what the same call does
\* when run alone on the same arguments, clock reading and answers.
AsAlone(p) ==
    pc[p] # "idle" =>
        LET alone == AloneRun(frame[p], ClockOf(p), resps[p])
        IN  /\ sent[p] = alone.sent
            /\ result[p] = alone.result
            /\ (now[p] # None) <=> alone.read_clock

(* C10: for any number of invocations in flight on the one client and any  *)
(* interleaving of their steps at the awaits, each invocation sends and    *)
(* returns what it would when run alone on the same arguments, clock       *)
(* reading and answers; a step changes the state of one invocation only    *)
(* and never the client's.                                                 *)
C10_Independent ==
    /\ [](\A p \in Procs : AsAlone(p))
    /\ [][/\ api_key' = api_key
          /\ \A p, q \in Procs :
               (p # q /\ Invocation(p)' # Invocation(p)) =>
                   Invocation(q)' = Invocation(q)]_vars

\* Two different bulk calls are in flight at once: one has sent its bulk
\* request while the other still waits for its metadata.
C10_Witness ==
    \E p, q \in Procs :
        /\ p # q
        /\ IsBulk(p) /\ IsBulk(q)
        /\ frame[p] # frame[q]
        /\ pc[p] = "await_request"
        /\ pc[q] = "await_meta"

----------------------------------------------------------------------------
(* C11: every request issued through _make_request (metadata, single       *)
(* metric and bulk) carries an api_key parameter equal to the key the      *)
(* client was constructed with, also when the caller's extra parameters    *)
(* hold an api_key of their own; the key is never left out or replaced.    *)
C11_ApiKeyAlwaysSent ==
    /\ api_key = "KEY"
    /\ \A p \in Procs :
        \A i \in 1 .. Len(sent[p]) :
            /\ "api_key" \in DOMAIN sent[p][i].params
            /\ sent[p][i].params["api_key"] = "KEY"

\* A bulk request and a single-metric request went out for callers whose
\* extra parameters carried an api_key of their own.
C11_Witness ==
    \E p \in Procs :
        /\ "api_key" \in DOMAIN frame[p].extra
        /\ frame[p].extra["api_key"] = "other"
        /\ \/ BulkSent(p) /\ sent[p][2].params["api_key"] = "KEY"
           \/ /\ IsMetric(p) /\ sent[p] # <<>>
              /\ sent[p][1].params["api_key"] = "KEY"

====
